---- MODULE Spec2Model ----
(***************************************************************************)
(* The EDA dashboard of src/app.py as a state machine.  Streamlit runs    *)
(* main() from top to bottom on every user interaction; one such run is a  *)
(* view cycle.  pc is the position of main(); the only program state that  *)
(* survives a cycle is the st.cache_data cache of load_data().             *)
(*                                                                         *)
(* A DataFrame is a record [columns, dtypes, index, rows]: the column      *)
(* names in order, the dtype of each column, the index label of each row   *)
(* and the rows (functions from column name to value).  Numeric values     *)
(* are integers.  An optional value (Python's None) is a sequence of       *)
(* length 0 or 1.                                                          *)
(***************************************************************************)
EXTENDS Integers, Sequences, FiniteSets, TLC

\* ------------------------------------------------------------------ bounds

\* Rows per species of the sample dataset (50 in scikit-learn's iris).
IrisRowsPerSpecies == 1

\* Saturation of the counters that count runs of a computation.
MaxRuns == 2

\* The row cap of the specification's chart policy (8000 there), scaled to
\* the row counts of the datasets below.
ROW_CAP == 2

\* ----------------------------------------------------------------- helpers

None == <<>>
Some(v) == <<v>>

Range(s) == {s[i] : i \in 1..Len(s)}

Pos(s, e) == CHOOSE i \in 1..Len(s) : s[i] = e

Min2(a, b) == IF a < b THEN a ELSE b

\* ------------------------------------------------------------- DataFrames

\* pandas' default RangeIndex: the row labels 0 .. n-1.
RangeIndex(n) == [i \in 1..n |-> i - 1]

\* A DataFrame built from column names, their dtypes and the row tuples.
DataFrame(columns, dtypes, data) ==
    [columns |-> columns,
     dtypes  |-> [c \in Range(columns) |-> dtypes[Pos(columns, c)]],
     index   |-> RangeIndex(Len(data)),
     rows    |-> [i \in 1..Len(data) |->
                    [c \in Range(columns) |-> data[i][Pos(columns, c)]]]]

\* df.empty: any axis of length 0.
empty_never(d) == FALSE
empty(d) == Len(d.columns) = 0 \/ Len(d.rows) = 0

\* df.head(n): the first n rows.
head(d, n) ==
    [d EXCEPT !.index = SubSeq(d.index, 1, Min2(n, Len(d.index))),
              !.rows  = SubSeq(d.rows, 1, Min2(n, Len(d.rows)))]

\* df.select_dtypes(include=...).columns.tolist(): the columns whose dtype
\* is one of include, in column order.
select_dtypes(d, include) ==
    SelectSeq(d.columns, LAMBDA c : d.dtypes[c] \in include)

\* df[col].unique(): the distinct values of a column.
unique(d, col) == {d.rows[i][col] : i \in 1..Len(d.rows)}

\* df[col].isin(values): the boolean mask, one entry per row.
isin_wrong(d, col, values) == [i \in 1..Len(d.rows) |-> d.rows[i][col] \notin values]
isin(d, col, values) == [i \in 1..Len(d.rows) |-> d.rows[i][col] \in values]

\* df[mask]: the rows whose mask entry is true, in order, each keeping its
\* index label; the columns are those of df.
BoolIndex(d, mask) ==
    LET kept == SelectSeq([i \in 1..Len(d.rows) |-> i], LAMBDA i : mask[i])
    IN  [d EXCEPT !.index = [k \in 1..Len(kept) |-> d.index[kept[k]]],
                  !.rows  = [k \in 1..Len(kept) |-> d.rows[kept[k]]]]

\* df[cols]: the sub-frame of the listed columns.
Project(d, cols) ==
    [columns |-> cols,
     dtypes  |-> [c \in Range(cols) |-> d.dtypes[c]],
     index   |-> d.index,
     rows    |-> [i \in 1..Len(d.rows) |-> [c \in Range(cols) |-> d.rows[i][c]]]]

\* df[col]: the values of a column, in row order.
Column(d, col) == [i \in 1..Len(d.rows) |-> d.rows[i][col]]

\* ------------------------------------------------------------- statistics

RECURSIVE Sum(_)
Sum(s) == IF Len(s) = 0 THEN 0 ELSE Head(s) + Sum(Tail(s))

SeqMin(s) == CHOOSE v \in Range(s) : \A w \in Range(s) : v <= w
SeqMax(s) == CHOOSE v \in Range(s) : \A w \in Range(s) : v >= w

\* The dtypes DataFrame.describe() and DataFrame.corr() treat as numbers.
NumberDtypes == {"float64", "int64"}

\* df.describe(): per numeric column count, sum (the mean is sum / count),
\* min and max; of a frame without numeric columns, per column count and
\* number of distinct values.  min and max of no rows are NaN (None).
describe(d) ==
    LET num == select_dtypes(d, NumberDtypes)
        n   == Len(d.rows)
    IN  IF Len(num) > 0
        THEN [c \in Range(num) |->
                [count |-> n,
                 sum   |-> Sum(Column(d, c)),
                 min   |-> IF n = 0 THEN None ELSE Some(SeqMin(Column(d, c))),
                 max   |-> IF n = 0 THEN None ELSE Some(SeqMax(Column(d, c)))]]
        ELSE [c \in Range(d.columns) |->
                [count |-> n, unique |-> Cardinality(unique(d, c))]]

\* One cell of the Pearson matrix, kept exact: r = num / sqrt(den2), and
\* NaN where den2 = 0 (a column without variance, or fewer than 2 rows).
Pearson(xs, ys) ==
    LET n   == Len(xs)
        sxy == Sum([i \in 1..n |-> xs[i] * ys[i]])
        sxx == Sum([i \in 1..n |-> xs[i] * xs[i]])
        syy == Sum([i \in 1..n |-> ys[i] * ys[i]])
        sx  == Sum(xs)
        sy  == Sum(ys)
    IN  [num  |-> n * sxy - sx * sy,
         den2 |-> (n * sxx - sx * sx) * (n * syy - sy * sy)]

\* df.corr(): the Pearson matrix over the frame's columns.
corr(d) ==
    [columns |-> d.columns,
     values  |-> [p \in Range(d.columns) \X Range(d.columns) |->
                    Pearson(Column(d, p[1]), Column(d, p[2]))]]

\* df[col].value_counts(): the number of rows per distinct value (the
\* order of the result, by descending count, is not represented).
value_counts(d, col) ==
    [v \in unique(d, col) |->
        Cardinality({i \in 1..Len(d.rows) : d.rows[i][col] = v})]

\* ------------------------------------------------------------ data sources

feature_names ==
    <<"sepal length (cm)", "sepal width (cm)",
      "petal length (cm)", "petal width (cm)">>

target_names == <<"setosa", "versicolor", "virginica">>

\* The body of load_data(): the iris measurements (stand-in integer values,
\* distinct per row) with the species name of each row as a fifth column.
load_iris_frame ==
    LET n == IrisRowsPerSpecies * Len(target_names)
        species(i) == target_names[((i - 1) \div IrisRowsPerSpecies) + 1]
    IN  DataFrame(feature_names \o <<"species">>,
                  <<"float64", "float64", "float64", "float64", "object">>,
                  [i \in 1..n |-> <<50 + i, 30 + ((i * i) % 7), 10 + (i * 3), i % 4, species(i)>>])

\* An uploaded file: parseable or not, and if parseable its header, the
\* kind of text each column holds and its rows.  Uploads lists the files
\* the user may supply; uploaded_file holds the position of one of them.
CsvFile(header, kinds, rows) ==
    [ok |-> TRUE, header |-> header, kinds |-> kinds, rows |-> rows]

BadFile == [ok |-> FALSE, header |-> <<>>, kinds |-> <<>>, rows |-> <<>>]

Uploads ==
    << CsvFile(<<"a", "s">>, <<"float", "text">>,
              << <<1, "x">>, <<2, "y">>, <<3, "x">> >>),
      CsvFile(<<"a", "b">>, <<"float", "int">>,
              << <<1, 4>>, <<2, 3>> >>),
      CsvFile(<<"s", "t">>, <<"text", "text">>,
              << <<"x", "p">>, <<"y", "p">> >>),
      CsvFile(<<"a", "f", "s">>, <<"int", "bool", "text">>,
              << <<1, TRUE, "x">>, <<2, FALSE, "y">> >>),
      CsvFile(<<"a", "s">>, <<"text", "text">>, <<>>),
      BadFile >>

\* The dtype pd.read_csv infers for a column from the text it holds; a
\* column of a file without rows is object.
InferDtype(kind, nrows) ==
    IF nrows = 0 THEN "object"
    ELSE CASE kind = "int"   -> "int64"
           [] kind = "float" -> "float64"
           [] kind = "bool"  -> "bool"
           [] OTHER          -> "object"

\* pd.read_csv(uploaded_file) of a parseable file.
read_csv(f) ==
    DataFrame(f.header,
              [i \in 1..Len(f.header) |-> InferDtype(f.kinds[i], Len(f.rows))],
              f.rows)

\* ------------------------------------------------------------------- state

VARIABLES
    pc,               \* position of main(); "idle" between two runs
    data_option,      \* the radio's value
    uploaded_file,    \* the file uploader's value: None or Some(file)
    df,               \* None or Some(frame)
    preview,          \* None or Some(the frame shown as preview)
    summary,          \* None or Some(the table shown as summary)
    categorical_cols,
    numeric_cols,
    selected_cat,     \* None or Some(column): the filter column
    selected_vals,    \* the multiselect's value
    df_filtered,      \* None or Some(frame)
    selected_col,     \* None or Some(column): histogram and box column
    x_col,            \* None or Some(column or "Index")
    y_col,            \* None or Some(column)
    color_col,        \* None or Some(column)
    fig,              \* None or Some(the figure built last)
    out,              \* what the run has put on the page, in order
    cache,            \* st.cache_data's entry for load_data(): None or Some(frame)
    load_calls,       \* calls of load_data() so far (saturating)
    load_runs,        \* runs of load_data()'s body so far (saturating)
    filter_key,       \* key of the filter the previous run computed, or None
    filter_runs,      \* consecutive runs of the filter on an equal key
    corr_key,         \* key of the correlation the previous run computed, or None
    corr_runs,        \* consecutive runs of the correlation on an equal key
    failed_before     \* some earlier run ended in a failed load

vars ==
    <<pc, data_option, uploaded_file, df, preview, summary, categorical_cols,
      numeric_cols, selected_cat, selected_vals, df_filtered, selected_col,
      x_col, y_col, color_col, fig, out, cache, load_calls, load_runs,
      filter_key, filter_runs, corr_key, corr_runs, failed_before>>

shown == <<preview, summary>>

filtering == <<selected_cat, selected_vals, df_filtered>>

choices == <<selected_col, x_col, y_col, color_col>>

locals ==
    <<df, shown, categorical_cols, numeric_cols, filtering, choices, fig>>

inputs == <<data_option, uploaded_file>>

loader == <<cache, load_calls, load_runs>>

history == <<filter_key, filter_runs, corr_key, corr_runs>>

SAMPLE == "Sample Iris Dataset"
UPLOAD == "Upload CSV"

\* One element of the page: the section it belongs to and the call that
\* made it.
Item(sec, kind) == [sec |-> sec, kind |-> kind]

\* The identity of the dataset of the current run.
Source == <<data_option, uploaded_file>>

Bump(n) == Min2(n + 1, MaxRuns)

Init ==
    /\ pc = "idle"
    /\ data_option = SAMPLE
    /\ uploaded_file = None
    /\ df = None
    /\ preview = None
    /\ summary = None
    /\ categorical_cols = <<>>
    /\ numeric_cols = <<>>
    /\ selected_cat = None
    /\ selected_vals = {}
    /\ df_filtered = None
    /\ selected_col = None
    /\ x_col = None
    /\ y_col = None
    /\ color_col = None
    /\ fig = None
    /\ out = <<>>
    /\ cache = None
    /\ load_calls = 0
    /\ load_runs = 0
    /\ filter_key = None
    /\ filter_runs = 0
    /\ corr_key = None
    /\ corr_runs = 0
    /\ failed_before = FALSE

\* ----------------------------------------------------------------- actions

\* A user interaction starts main() anew with the widgets' current values.
Rerun ==
    /\ pc = "idle"
    /\ \E opt \in {SAMPLE, UPLOAD} :
         /\ data_option' = opt
         /\ uploaded_file' \in
              IF opt = UPLOAD
              THEN {None} \cup {Some(i) : i \in 1..Len(Uploads)}
              ELSE {None}
    /\ df' = None
    /\ preview' = None
    /\ summary' = None
    /\ categorical_cols' = <<>>
    /\ numeric_cols' = <<>>
    /\ selected_cat' = None
    /\ selected_vals' = {}
    /\ df_filtered' = None
    /\ selected_col' = None
    /\ x_col' = None
    /\ y_col' = None
    /\ color_col' = None
    /\ fig' = None
    /\ out' = <<Item("page", "title"), Item("page", "markdown")>>
    /\ pc' = "load"
    /\ UNCHANGED <<loader, history, failed_before>>

\* main() returns after a failed load, having put one notice on the page.
Fail(kind) ==
    /\ out' = Append(out, Item("load", kind))
    /\ pc' = "idle"
    /\ failed_before' = TRUE
    /\ filter_key' = None
    /\ filter_runs' = 0
    /\ corr_key' = None
    /\ corr_runs' = 0

\* st.cache_data: the body of load_data() runs only without a cached entry.
cache_miss_always(c) == FALSE
cache_hit(c) == c # None

\* Lines 25-38: the data source.
Load ==
    /\ pc = "load"
    /\ IF data_option = SAMPLE
       THEN /\ load_calls' = Bump(load_calls)
            /\ IF cache_hit(cache)
               THEN /\ df' = cache
                    /\ UNCHANGED <<cache, load_runs>>
               ELSE /\ df' = Some(load_iris_frame)
                    /\ cache' = Some(load_iris_frame)
                    /\ load_runs' = Bump(load_runs)
            /\ pc' = "check"
            /\ UNCHANGED <<out, history, failed_before>>
       ELSE IF uploaded_file # None
            THEN IF Uploads[uploaded_file[1]].ok
                 THEN /\ df' = Some(read_csv(Uploads[uploaded_file[1]]))
                      /\ pc' = "check"
                      /\ UNCHANGED <<out, loader, history, failed_before>>
                 ELSE /\ Fail("error")
                      /\ UNCHANGED <<df, loader>>
            ELSE /\ Fail("warning")
                 /\ UNCHANGED <<df, loader>>
    /\ UNCHANGED <<inputs, shown, categorical_cols, numeric_cols, filtering,
                   choices, fig>>

\* Lines 40-42: no data.
CheckEmpty ==
    /\ pc = "check"
    /\ IF df = None \/ empty(df[1])
       THEN Fail("error")
       ELSE /\ pc' = "preview"
            /\ UNCHANGED <<out, history, failed_before>>
    /\ UNCHANGED <<inputs, locals, loader>>

PREVIEW_ROWS == 10

\* Lines 44-45: the preview.
Preview ==
    /\ pc = "preview"
    /\ out' = out \o <<Item("Raw Data Preview", "subheader"),
                       Item("Raw Data Preview", "dataframe")>>
    /\ preview' = Some(head(df[1], PREVIEW_ROWS))
    /\ pc' = "summary"
    /\ UNCHANGED <<inputs, df, summary, categorical_cols, numeric_cols,
                   filtering, choices, fig, loader, history, failed_before>>

\* Lines 47-48: the summary.
Summary ==
    /\ pc = "summary"
    /\ summary' = Some(describe(df[1]))
    /\ out' = out \o <<Item("Data Summary", "subheader"),
                       Item("Data Summary", "write")>>
    /\ pc' = "filter"
    /\ UNCHANGED <<inputs, df, preview, categorical_cols, numeric_cols,
                   filtering, choices, fig, loader, history, failed_before>>

\* The dtypes line 51 takes as categorical and line 62 as numeric.
CATEGORICAL_DTYPES == {"object", "category"}
NUMERIC_DTYPES == {"float64", "int64"}

\* Line 56: df[df[selected_cat].isin(selected_vals)].
apply_filter_all_when_empty(d, col, values) ==
    IF values = {} THEN d ELSE BoolIndex(d, isin(d, col, values))
apply_filter(d, col, values) == BoolIndex(d, isin(d, col, values))

\* The run count of a computation on key k, the latest before it having
\* been on key last.
Runs(last, k, n) == IF last = k THEN Bump(n) ELSE 1

\* Lines 50-58: the filter.
Filter ==
    /\ pc = "filter"
    /\ categorical_cols' = select_dtypes(df[1], CATEGORICAL_DTYPES)
    /\ IF Len(categorical_cols') > 0
       THEN \E cat \in Range(categorical_cols') :
            \E vals \in SUBSET unique(df[1], cat) :
               /\ selected_cat' = Some(cat)
               /\ selected_vals' = vals
               /\ df_filtered' = Some(apply_filter(df[1], cat, vals))
               /\ filter_key' = Some(<<Source, cat, vals>>)
               /\ filter_runs' = Runs(filter_key, filter_key', filter_runs)
       ELSE /\ df_filtered' = df
            /\ filter_key' = None
            /\ filter_runs' = 0
            /\ UNCHANGED <<selected_cat, selected_vals>>
    /\ pc' = "histogram"
    /\ UNCHANGED <<inputs, df, shown, numeric_cols, choices, fig, out, loader,
                   corr_key, corr_runs, failed_before>>

\* The options of a colour selectbox: [None] + categorical_cols, and no
\* selectbox (None) without categorical columns.
ColorOptions(cats) == {None} \cup {Some(c) : c \in Range(cats)}

\* A figure: the plotting call and its arguments.
Figure(kind, data, x, y, color, title) ==
    [kind |-> kind, data |-> data, x |-> x, y |-> y, color |-> color,
     title |-> title]

\* Line 63: the histogram section's precondition.
histogram_needs_two(cols) == Len(cols) > 1
histogram_available(cols) == Len(cols) > 0

\* Lines 60-72: the histogram.
Histogram ==
    /\ pc = "histogram"
    /\ numeric_cols' = select_dtypes(df[1], NUMERIC_DTYPES)
    /\ IF histogram_available(numeric_cols')
       THEN \E col \in Range(numeric_cols') :
            \E color \in ColorOptions(categorical_cols) :
               /\ selected_col' = Some(col)
               /\ color_col' = color
               /\ fig' = Some(Figure("histogram", df_filtered, Some(col), None,
                                     color, <<"Histogram of ", col>>))
               /\ out' = out \o <<Item("Histogram", "subheader"),
                                  Item("Histogram", "plotly_chart")>>
       ELSE /\ out' = out \o <<Item("Histogram", "subheader"),
                               Item("Histogram", "info")>>
            /\ UNCHANGED <<selected_col, color_col, fig>>
    /\ pc' = "scatter"
    /\ UNCHANGED <<inputs, df, shown, categorical_cols, filtering, x_col,
                   y_col, loader, history, failed_before>>

\* Line 76: the scatter section's precondition.
scatter_always(cols) == TRUE
scatter_available(cols) == Len(cols) >= 2

\* Lines 74-86: the scatter plot.
Scatter ==
    /\ pc = "scatter"
    /\ IF scatter_available(numeric_cols)
       THEN \E x \in Range(numeric_cols) :
            \E y \in Range(numeric_cols) :
            \E color \in ColorOptions(categorical_cols) :
               /\ x_col' = Some(x)
               /\ y_col' = Some(y)
               /\ color_col' = color
               /\ fig' = Some(Figure("scatter", df_filtered, Some(x), Some(y),
                                     color, <<"Scatter Plot: ", x, " vs ", y>>))
               /\ out' = out \o <<Item("Scatter Plot", "subheader"),
                                  Item("Scatter Plot", "plotly_chart")>>
       ELSE /\ out' = out \o <<Item("Scatter Plot", "subheader"),
                               Item("Scatter Plot", "info")>>
            /\ UNCHANGED <<x_col, y_col, color_col, fig>>
    /\ pc' = "heatmap"
    /\ UNCHANGED <<inputs, df, shown, categorical_cols, numeric_cols,
                   filtering, selected_col, loader, history, failed_before>>

\* Line 91: the frame whose numeric columns are correlated.
corr_input_unfiltered == df
corr_input == df_filtered

\* Lines 88-96: the correlation heatmap.
Heatmap ==
    /\ pc = "heatmap"
    /\ IF Len(numeric_cols) > 1
       THEN /\ fig' = Some(Figure("heatmap",
                                  Some(corr(Project(corr_input[1], numeric_cols))),
                                  Some(numeric_cols), Some(numeric_cols), None,
                                  <<"Correlation Matrix">>))
            /\ corr_key' = Some(<<Source, selected_cat, selected_vals, numeric_cols>>)
            /\ corr_runs' = Runs(corr_key, corr_key', corr_runs)
            /\ out' = out \o <<Item("Correlation Heatmap", "subheader"),
                               Item("Correlation Heatmap", "plotly_chart")>>
       ELSE /\ out' = out \o <<Item("Correlation Heatmap", "subheader"),
                               Item("Correlation Heatmap", "info")>>
            /\ corr_key' = None
            /\ corr_runs' = 0
            /\ UNCHANGED fig
    /\ pc' = "box"
    /\ UNCHANGED <<inputs, df, shown, categorical_cols, numeric_cols,
                   filtering, choices, loader, filter_key, filter_runs,
                   failed_before>>

\* Lines 98-109: the box plot.
Box ==
    /\ pc = "box"
    /\ IF Len(numeric_cols) > 0
       THEN \E col \in Range(numeric_cols) :
            \E color \in ColorOptions(categorical_cols) :
               /\ selected_col' = Some(col)
               /\ color_col' = color
               /\ fig' = Some(Figure("box", df_filtered, color, Some(col), None,
                                     IF color # None
                                     THEN <<"Box Plot of ", col, " by ", color[1]>>
                                     ELSE <<"Box Plot of ", col>>))
               /\ out' = out \o <<Item("Box Plot", "subheader"),
                                  Item("Box Plot", "plotly_chart")>>
       ELSE /\ out' = out \o <<Item("Box Plot", "subheader"),
                               Item("Box Plot", "info")>>
            /\ UNCHANGED <<selected_col, color_col, fig>>
    /\ pc' = "bar"
    /\ UNCHANGED <<inputs, df, shown, categorical_cols, numeric_cols,
                   filtering, x_col, y_col, loader, history, failed_before>>

\* Lines 111-122: the bar chart of value counts.
Bar ==
    /\ pc = "bar"
    /\ IF Len(categorical_cols) > 0
       THEN \E cat \in Range(categorical_cols) :
               /\ selected_cat' = Some(cat)
               /\ fig' = Some(Figure("bar",
                                     Some(value_counts(df_filtered[1], cat)),
                                     Some(cat), Some("count"), None,
                                     <<"Bar Chart of ", cat, " Counts">>))
               /\ out' = out \o <<Item("Bar Chart", "subheader"),
                                  Item("Bar Chart", "plotly_chart")>>
       ELSE /\ out' = out \o <<Item("Bar Chart", "subheader"),
                               Item("Bar Chart", "info")>>
            /\ UNCHANGED <<selected_cat, fig>>
    /\ pc' = "line"
    /\ UNCHANGED <<inputs, df, shown, categorical_cols, numeric_cols,
                   selected_vals, df_filtered, choices, loader, history,
                   failed_before>>

\* Line 133: the x values of the line chart.
x_data_positions(d, x) ==
    IF x = "Index" THEN RangeIndex(Len(d.rows)) ELSE Column(d, x)
x_data(d, x) == IF x = "Index" THEN d.index ELSE Column(d, x)

\* Lines 124-138: the line chart; main() returns after it.
Line ==
    /\ pc = "line"
    /\ IF Len(numeric_cols) >= 1
       THEN \E x \in {"Index"} \cup Range(numeric_cols) :
            \E y \in Range(numeric_cols) :
            \E color \in ColorOptions(categorical_cols) :
               /\ x_col' = Some(x)
               /\ y_col' = Some(y)
               /\ color_col' = color
               /\ fig' = Some(Figure("line", df_filtered,
                                     Some(x_data(df_filtered[1], x)), Some(y),
                                     color, <<"Line Chart: ", y, " vs ", x>>))
               /\ out' = out \o <<Item("Line Chart", "subheader"),
                                  Item("Line Chart", "plotly_chart")>>
       ELSE /\ out' = out \o <<Item("Line Chart", "subheader"),
                               Item("Line Chart", "info")>>
            /\ UNCHANGED <<x_col, y_col, color_col, fig>>
    /\ pc' = "idle"
    /\ UNCHANGED <<inputs, df, shown, categorical_cols, numeric_cols,
                   filtering, selected_col, loader, history, failed_before>>

Next ==
    \/ Rerun
    \/ Load
    \/ CheckEmpty
    \/ Preview
    \/ Summary
    \/ Filter
    \/ Histogram
    \/ Scatter
    \/ Heatmap
    \/ Box
    \/ Bar
    \/ Line

Spec == Init /\ [][Next]_vars

\* ------------------------------------------------------------ claim helpers

\* What a section has put on the page besides its heading.
ItemsOf(sec) == SelectSeq(out, LAMBDA it : it.sec = sec /\ it.kind # "subheader")

LastItem == out[Len(out)]

\* The run has returned after a failed load / after the last section.
RunFailed == pc = "idle" /\ Len(out) > 0 /\ LastItem.sec = "load"
RunComplete == pc = "idle" /\ Len(out) > 0 /\ LastItem.sec = "Line Chart"

\* The positions of main() at which the filter's selection is in
\* selected_cat and selected_vals.
Filtered ==
    /\ pc \in {"histogram", "scatter", "heatmap", "box", "bar"}
    /\ selected_cat # None

ChartSections ==
    <<"Histogram", "Scatter Plot", "Correlation Heatmap", "Box Plot",
      "Bar Chart", "Line Chart">>

\* The sections that have run when main() is at position p.
SectionsBefore(p) ==
    CASE p = "scatter" -> 1
      [] p = "heatmap" -> 2
      [] p = "box"     -> 3
      [] p = "bar"     -> 4
      [] p = "line"    -> 5
      [] p = "idle"    -> IF RunComplete THEN 6 ELSE 0
      [] OTHER         -> 0

\* Each section that has run has emitted exactly one chart or notice.
SectionsEmitted ==
    \A k \in 1..6 :
        LET its == ItemsOf(ChartSections[k])
        IN  IF k <= SectionsBefore(pc)
            THEN Len(its) = 1 /\ its[1].kind \in {"plotly_chart", "info"}
            ELSE Len(its) = 0

\* The columns of a frame with a dtype of the given set, counted from the
\* frame itself.
ColumnsOfDtype(d, dtypes) == {c \in Range(d.columns) : d.dtypes[c] \in dtypes}

\* ------------------------------------------------------------------ claims

\* C1: the filtered dataset holds exactly the rows of the dataset whose
\* value in the filter column is one of the selected values, in their
\* original order and with all columns; so it has no more rows than the
\* dataset.  (Rows are told apart by their index labels, which are the row
\* positions of the unfiltered dataset.)
C1_FilterExact ==
    Filtered =>
        LET D   == df[1]
            F   == df_filtered[1]
            col == selected_cat[1]
        IN  /\ F.columns = D.columns
            /\ F.dtypes = D.dtypes
            /\ Len(F.index) = Len(F.rows)
            /\ Len(F.rows) <= Len(D.rows)
            /\ \A k \in 1..Len(F.rows) :
                 /\ F.rows[k][col] \in selected_vals
                 /\ F.index[k] + 1 \in 1..Len(D.rows)
                 /\ F.rows[k] = D.rows[F.index[k] + 1]
            /\ \A j, k \in 1..Len(F.rows) : j < k => F.index[j] < F.index[k]
            /\ \A i \in 1..Len(D.rows) :
                 D.rows[i][col] \in selected_vals => (i - 1) \in Range(F.index)

\* C1's case: a filter that keeps rows on both sides of a removed one.
C1_Witness ==
    /\ Filtered
    /\ pc = "histogram"
    /\ Len(df_filtered[1].rows) = 2
    /\ df_filtered[1].index = <<0, 2>>

\* C2: with an empty selection the filtered dataset has no rows and the
\* columns of the source, and the run goes on to its end: at every later
\* position of main() a step is possible, and every chart section that has
\* run has emitted its chart or its notice.
C2_EmptySelection ==
    (/\ df_filtered # None
     /\ Len(categorical_cols) > 0
     /\ selected_vals = {}) =>
        /\ Len(df_filtered[1].rows) = 0
        /\ Len(df_filtered[1].index) = 0
        /\ df_filtered[1].columns = df[1].columns
        /\ SectionsEmitted
        /\ ~RunFailed
        /\ pc # "idle" => ENABLED Next

\* C2's case: a run that has ended after an empty selection.
C2_Witness ==
    /\ RunComplete
    /\ Len(categorical_cols) > 0
    /\ selected_vals = {}
    /\ Len(df_filtered[1].rows) = 0
    /\ Len(df[1].rows) > 0

\* C3: once both role lists are computed, every column of the dataset is
\* in exactly one of them.
C3_Partition ==
    pc \in {"scatter", "heatmap", "box", "bar", "line"} =>
        \A c \in Range(df[1].columns) :
            (c \in Range(categorical_cols)) # (c \in Range(numeric_cols))

\* C4: a histogram, box, scatter or line chart of a filtered dataset with
\* more rows than the cap is built over the first ROW_CAP rows, and over
\* the whole dataset otherwise.  (A figure carries no truncation flag.)
C4_RowCap ==
    (fig # None /\ fig[1].kind \in {"histogram", "box", "scatter", "line"}) =>
        LET F == df_filtered[1]
            G == fig[1].data[1]
        IN  IF Len(F.rows) > ROW_CAP
            THEN G.rows = SubSeq(F.rows, 1, ROW_CAP)
            ELSE G = F

C6_Scatter ==
    pc = "heatmap" =>
        LET its == ItemsOf("Scatter Plot")
            n   == Cardinality(ColumnsOfDtype(df[1], NUMERIC_DTYPES))
        IN  /\ Len(its) = 1
            /\ ENABLED Heatmap
            /\ IF n < 2
               THEN /\ its[1].kind = "info"
                    /\ fig # None => fig[1].kind # "scatter"
               ELSE /\ its[1].kind = "plotly_chart"
                    /\ fig # None
                    /\ fig[1].kind = "scatter"
                    /\ fig[1].x[1] \in ColumnsOfDtype(df[1], NUMERIC_DTYPES)
                    /\ fig[1].y[1] \in ColumnsOfDtype(df[1], NUMERIC_DTYPES)

\* C6's case: a dataset with one numeric column, its scatter rejected.
C6_Witness ==
    /\ pc = "heatmap"
    /\ Cardinality(ColumnsOfDtype(df[1], NUMERIC_DTYPES)) = 1
    /\ LastItem = Item("Scatter Plot", "info")

\* The source of the run yields no dataset: no file, a file that does not
\* parse, or a file without rows.
SourceInvalid ==
    /\ data_option = UPLOAD
    /\ \/ uploaded_file = None
       \/ ~Uploads[uploaded_file[1]].ok
       \/ Len(Uploads[uploaded_file[1]].rows) = 0

KindCount(kinds) == Len(SelectSeq(out, LAMBDA it : it.kind \in kinds))

\* C7: a run whose load fails ends, with the program ready for the next
\* interaction, having emitted exactly one notice and no preview, summary
\* or chart; a run ends that way exactly when its own source is invalid,
\* and a run with a valid source emits the preview, the summary and all six
\* sections whether or not an earlier run failed.
C7_FailedLoad ==
    /\ (pc = "idle" /\ Len(out) > 0) =>
           /\ RunFailed \/ RunComplete
           /\ RunFailed <=> SourceInvalid
           /\ ENABLED Rerun
    /\ RunFailed =>
           /\ KindCount({"error", "warning", "info"}) = 1
           /\ KindCount({"dataframe", "write", "plotly_chart"}) = 0
           /\ preview = None /\ summary = None /\ fig = None
    /\ RunComplete =>
           /\ KindCount({"error", "warning"}) = 0
           /\ KindCount({"dataframe"}) = 1
           /\ KindCount({"write"}) = 1
           /\ KindCount({"plotly_chart", "info"}) = 6
           /\ preview # None /\ summary # None

\* C7's case: a complete run after a failed one.
C7_Witness ==
    /\ RunComplete
    /\ failed_before
    /\ data_option = UPLOAD

\* C8 as stated: the summary and the correlation matrix of a run are both
\* computed from the run's filtered dataset.
C8_StatsFromFiltered ==
    /\ (summary # None /\ df_filtered # None) =>
           summary = Some(describe(df_filtered[1]))
    /\ (fig # None /\ fig[1].kind = "heatmap") =>
           fig[1].data = Some(corr(Project(df_filtered[1], numeric_cols)))

\* C8 amended: the summary is computed first, from the unfiltered dataset
\* and before the filter; the categorical columns are classified before
\* the filter and the numeric ones after it, and every chart section runs
\* after both; the correlation matrix is computed from the run's filtered
\* dataset.
C8_SummaryUnfiltered ==
    /\ summary # None => summary = Some(describe(df[1]))
    /\ pc = "filter" => (summary # None /\ df_filtered = None)
    /\ pc \in {"histogram", "scatter", "heatmap", "box", "bar", "line"} =>
           /\ summary # None
           /\ df_filtered # None
           /\ categorical_cols = select_dtypes(df[1], CATEGORICAL_DTYPES)
    /\ pc \in {"scatter", "heatmap", "box", "bar", "line"} =>
           numeric_cols = select_dtypes(df[1], NUMERIC_DTYPES)
    /\ KindCount({"plotly_chart"}) > 0 => df_filtered # None
    /\ (fig # None /\ fig[1].kind = "heatmap") =>
           LET F    == df_filtered[1]
               cols == select_dtypes(F, NUMERIC_DTYPES)
           IN  /\ fig[1].data[1].columns = cols
               /\ \A p \in Range(cols) \X Range(cols) :
                    fig[1].data[1].values[p] =
                        Pearson(Column(F, p[1]), Column(F, p[2]))

\* C8's case: a heatmap over a filter that has removed rows, beside a
\* summary that still counts them.
C8_Witness ==
    /\ pc = "box"
    /\ fig # None
    /\ fig[1].kind = "heatmap"
    /\ Len(df_filtered[1].rows) < Len(df[1].rows)
    /\ Len(df_filtered[1].rows) > 0
    /\ summary # Some(describe(df_filtered[1]))

\* C9 as stated: with x = "Index" the x value of the k-th row of the
\* filtered dataset is its position among the rows that remain.
C9_IndexIsPosition ==
    (fig # None /\ fig[1].kind = "line" /\ x_col = Some("Index")) =>
        fig[1].x[1] = RangeIndex(Len(df_filtered[1].rows))

\* C9 amended: with x = "Index" the x value of the k-th row of the
\* filtered dataset is the position that row has in the unfiltered
\* dataset; the x values increase strictly, and are the consecutive
\* positions when the filter has removed no row.
C9_IndexIsOriginalPosition ==
    (fig # None /\ fig[1].kind = "line" /\ x_col = Some("Index")) =>
        LET D  == df[1]
            F  == df_filtered[1]
            xs == fig[1].x[1]
        IN  /\ Len(xs) = Len(F.rows)
            /\ \A k \in 1..Len(xs) :
                 /\ xs[k] + 1 \in 1..Len(D.rows)
                 /\ D.rows[xs[k] + 1] = F.rows[k]
            /\ \A j, k \in 1..Len(xs) : j < k => xs[j] < xs[k]
            /\ Len(F.rows) = Len(D.rows) => xs = RangeIndex(Len(D.rows))

\* C9's case: a line chart over the index after the filter has removed
\* the first row.
C9_Witness ==
    /\ fig # None
    /\ fig[1].kind = "line"
    /\ x_col = Some("Index")
    /\ Len(df_filtered[1].rows) > 0
    /\ df_filtered[1].index[1] > 0

\* Whether section k emits its chart, from the numbers of numeric and of
\* categorical columns of the unfiltered dataset.
WantsChart(k, nNum, nCat) ==
    CASE k = 1 -> nNum >= 1
      [] k = 2 -> nNum >= 2
      [] k = 3 -> nNum >= 2
      [] k = 4 -> nNum >= 1
      [] k = 5 -> nCat >= 1
      [] k = 6 -> nNum >= 1

\* C10: each chart section that has run has emitted exactly one output,
\* the chart if the unfiltered dataset has the numeric or categorical
\* columns the section needs and the notice if not, whatever the filter;
\* and every column chosen for an axis or a grouping is a column of the
\* filtered dataset ("Index", the line chart's row-index choice, aside).
C10_Sections ==
    /\ SectionsEmitted
    /\ \A k \in 1..SectionsBefore(pc) :
         LET nNum == Cardinality(ColumnsOfDtype(df[1], NUMERIC_DTYPES))
             nCat == Cardinality(ColumnsOfDtype(df[1], CATEGORICAL_DTYPES))
         IN  ItemsOf(ChartSections[k])[1].kind =
                 IF WantsChart(k, nNum, nCat) THEN "plotly_chart" ELSE "info"
    /\ \A v \in {selected_col, x_col, y_col, color_col, selected_cat} :
         v # None =>
             /\ df_filtered # None
             /\ v[1] \in Range(df_filtered[1].columns) \cup {"Index"}

\* C10's case: a complete run over a dataset with one numeric column, its
\* filter having removed every row: charts and notices side by side.
C10_Witness ==
    /\ RunComplete
    /\ Len(df_filtered[1].rows) = 0
    /\ ItemsOf("Histogram")[1].kind = "plotly_chart"
    /\ ItemsOf("Scatter Plot")[1].kind = "info"
    /\ ItemsOf("Bar Chart")[1].kind = "plotly_chart"
    /\ x_col # None

====
